---- MODULE Spec2Model ----
(***************************************************************************)
(* Model of Modelo/python/hand_tracker.py: the HandTracker object, its     *)
(* run() loop, the telemetry channel (send_to_unity) and the preview       *)
(* channel (_send_video_frame_to_unity).                                   *)
(*                                                                         *)
(* Time is counted in ticks, TicksPerSecond ticks to the second, so that   *)
(* "elapsed < 1.0 / video_fps" is the integer test                         *)
(* "elapsed * video_fps < TicksPerSecond".  Confidences are percentages    *)
(* (0.0 is 0, 1.0 is 100).  Coordinates of landmarks are integers standing *)
(* for the floats MediaPipe reports.                                       *)
(* self.fps is the pair <<frames, ticks>> of the last full window.        *)
(***************************************************************************)
EXTENDS Integers, Sequences, FiniteSets, TLC

\* ---------------------------------------------------------------- bounds
MaxClock == 2          \* the clock stops advancing here
MaxFrames == 2         \* cap on the frame counter of one FPS window

\* ------------------------------------------------------- program constants
TicksPerSecond == 1    \* the 1.0 of "1.0 / self.video_fps" and ">= 1.0"
LandmarksPerHand == 21 \* points of one MediaPipe hand
MaxDatagram == 65000   \* largest preview payload that is sent
UDP_VIDEO_PORT == 5006
UnityPercent == 100    \* confidence 1.0

NoPort == 0            \* udp_video_port is None
NoKey == "none"        \* cv2.waitKey(1) saw no key
Unknown == "?"         \* the sentinel of predict_letter

VideoFpsValues == {-1, 0, 1}
PayloadSizes == {1200, 65000, 65001}
Poses == {1}
Delays == {0, 1}                \* ticks one cap.read() or one imencode may take
Keys == {"q", "m"}
StartClock == TicksPerSecond   \* time.time() at construction, past the epoch

VARIABLES
    pc,                     \* position of the caller in run()
    exitReason,             \* why the loop of run() was left
    \* configuration, fixed by __init__
    udp_video_port, video_fps, show_window, onnx_session,
    \* attributes of the HandTracker
    is_running, mirror_mode, current_letter, confidence, fps,
    last_video_send_time,
    cap_opened, hands_open, sock_open, windows,
    \* locals of run()
    prev_time, frame_count, frame, results,
    hand_detected, landmarks, letter, conf,
    \* local of predict_letter: what onnx_session.run returned in this cycle
    outputs,
    \* local of _send_video_frame_to_unity
    now,
    \* environment
    clock, pendingKey,
    \* what the current cycle put on the wire
    telemetry, preview, previewOutcome,
    \* the preview datagrams across cycles: when the last one left the socket,
    \* and how many have left (0, 1, or 2 for two and more)
    lastPreviewAt, previewsSent,
    \* the 'm' keys handled so far, modulo 2
    mirror_toggles

config == <<udp_video_port, video_fps, show_window, onnx_session>>
attrs == <<is_running, mirror_mode, current_letter, confidence, fps,
           last_video_send_time>>
resources == <<cap_opened, hands_open, sock_open, windows>>
locals == <<prev_time, frame_count, frame, results, hand_detected, landmarks,
            letter, conf, outputs, now>>
wire == <<telemetry, preview, previewOutcome>>
gaps == <<lastPreviewAt, previewsSent, mirror_toggles>>
vars == <<pc, exitReason, config, attrs, resources, locals, clock, pendingKey,
          wire, gaps>>

\* ------------------------------------------------------------- the extractor
\* One MediaPipe hand: LandmarksPerHand points with x, y, z.
Hand(p) == [i \in 1..LandmarksPerHand |-> [x |-> p, y |-> p + i, z |-> 0 - i]]

NoHand == <<>>             \* results.multi_hand_landmarks is None

RECURSIVE Flatten(_, _)
Flatten(points, i) ==
    IF i > Len(points) THEN <<>>
    ELSE <<points[i].x, points[i].y, points[i].z>> \o Flatten(points, i + 1)

\* Variant of Flatten that keeps x and y only (42 values for 21 points).
RECURSIVE FlattenXY(_, _)
FlattenXY(points, i) ==
    IF i > Len(points) THEN <<>>
    ELSE <<points[i].x, points[i].y>> \o FlattenXY(points, i + 1)

extract_landmarks_42(hand_landmarks) == FlattenXY(hand_landmarks, 1)

\* extract_landmarks: x, y, z of every point, in order.
extract_landmarks(hand_landmarks) == Flatten(hand_landmarks, 1)

\* ------------------------------------------------------------ the classifier
NoProbs == [kind |-> "None", items |-> {}]

\* What onnx_session.run does on one call: it raises, or it returns outputs
\* with outputs[0][0] = label and, when nout > 1, outputs[1] = probs.
EngineRuns ==
    { [raises |-> TRUE,  label |-> "",  nout |-> 0, probs |-> NoProbs],
      [raises |-> FALSE, label |-> "A", nout |-> 2,
       probs |-> [kind |-> "dict", items |-> {<<"A", 92>>, <<"B", 8>>}]],
      [raises |-> FALSE, label |-> "B", nout |-> 2,
       probs |-> [kind |-> "dict", items |-> {}]],
      [raises |-> FALSE, label |-> "B", nout |-> 2,
       probs |-> [kind |-> "ndarray", items |-> {<<"A", 35>>, <<"B", 65>>}]],
      [raises |-> FALSE, label |-> "B", nout |-> 2, probs |-> NoProbs],
      [raises |-> FALSE, label |-> "B", nout |-> 1, probs |-> NoProbs] }

\* onnx_session.run was not called.
NoOutputs == [raises |-> FALSE, label |-> "", nout |-> 0, probs |-> NoProbs]

MaxValue(items) ==
    CHOOSE v \in {it[2] : it \in items} : \A it \in items : it[2] <= v

\* Variant of predict_letter that answers the empty letter without a model.
predict_letter_EmptyWithoutModel(session, run) ==
    IF session = "None" THEN <<"", 0>>
    ELSE IF run.raises THEN <<Unknown, 0>>
    ELSE IF run.nout > 1 /\ run.probs.kind # "None"
         THEN IF run.probs.kind = "dict"
              THEN <<run.label,
                     IF run.probs.items # {} THEN MaxValue(run.probs.items) ELSE 0>>
              ELSE <<run.label, UnityPercent>>
         ELSE <<run.label, UnityPercent>>

\* predict_letter: <<letter, confidence>>.
predict_letter(session, run) ==
    IF session = "None" THEN <<Unknown, 0>>
    ELSE IF run.raises THEN <<Unknown, 0>>
    ELSE IF run.nout > 1 /\ run.probs.kind # "None"
         THEN IF run.probs.kind = "dict"
              THEN <<run.label,
                     IF run.probs.items # {} THEN MaxValue(run.probs.items) ELSE 0>>
              ELSE <<run.label, UnityPercent>>
         ELSE <<run.label, UnityPercent>>

\* ------------------------------------------------------- the telemetry channel
\* The "landmarks" entry of the message of send_to_unity.
LandmarksField(lm, detected) == IF detected THEN lm ELSE <<>>

\* The dictionary send_to_unity serialises.
TelemetryMessage(lm, l, c, detected, t) ==
    [hand_detected |-> detected,
     landmarks |-> LandmarksField(lm, detected),
     letter |-> l,
     confidence |-> c,
     timestamp |-> t]

\* --------------------------------------------------------- the preview channel
\* Variants of RateLimited: the comparison reversed; the test of video_fps
\* left out.
RateLimited_Reversed(fpsv, t, last) ==
    fpsv > 0 /\ (t - last) * fpsv > TicksPerSecond

RateLimited_NoFpsTest(fpsv, t, last) == (t - last) * fpsv < TicksPerSecond

\* The rate limiter of _send_video_frame_to_unity: TRUE when the call returns
\* without encoding.
RateLimited(fpsv, t, last) == fpsv > 0 /\ (t - last) * fpsv < TicksPerSecond

\* Variant of Oversized that tests against the largest UDP payload.
Oversized_UdpLimit(n) == n > 65507

\* The size test of _send_video_frame_to_unity: TRUE when nothing is sent.
Oversized(n) == n > MaxDatagram

\* ----------------------------------------------------------------- __init__
Init ==
    /\ pc = "idle"
    /\ exitReason = "none"
    /\ udp_video_port \in {NoPort, UDP_VIDEO_PORT}
    /\ video_fps \in VideoFpsValues
    /\ show_window \in BOOLEAN
    /\ onnx_session \in {"None", "Session"}
    /\ is_running = FALSE
    /\ mirror_mode = TRUE              \* the default; 'm' reaches the other value
    /\ current_letter = ""
    /\ confidence = 0
    /\ fps = <<0, 1>>
    /\ last_video_send_time = 0
    /\ cap_opened \in BOOLEAN
    /\ hands_open = TRUE
    /\ sock_open = TRUE
    /\ windows = FALSE
    /\ prev_time = 0
    /\ frame_count = 0
    /\ frame = [taken |-> FALSE, flipped |-> FALSE]
    /\ results = NoHand
    /\ hand_detected = FALSE
    /\ landmarks = <<>>
    /\ letter = ""
    /\ conf = 0
    /\ outputs = NoOutputs
    /\ now = 0
    /\ clock = StartClock
    /\ pendingKey = NoKey
    /\ telemetry = <<>>
    /\ preview = <<>>
    /\ previewOutcome = "none"
    /\ lastPreviewAt = 0 - 1
    /\ previewsSent = 0
    /\ mirror_toggles = 0

\* ---------------------------------------------------------------------- run
InLoop == {"loop", "extract", "classify", "send", "fps", "show", "video",
           "encode", "keys"}

\* Variant of cleanup that leaves the capture device open.
cleanup_KeepsCamera ==
    /\ is_running' = FALSE
    /\ cap_opened' = cap_opened
    /\ hands_open' = FALSE
    /\ sock_open' = FALSE
    /\ windows' = FALSE

\* cleanup(): every resource is released.
cleanup ==
    /\ is_running' = FALSE
    /\ cap_opened' = FALSE
    /\ hands_open' = FALSE
    /\ sock_open' = FALSE
    /\ windows' = FALSE

\* The "finally" of run(): cleanup(), then run() is over and its locals with it;
\* destroyAllWindows drops the key that was waiting.
Finally(reason) ==
    /\ cleanup
    /\ pc' = "returned"
    /\ exitReason' = reason
    /\ prev_time' = 0
    /\ frame_count' = 0
    /\ frame' = [taken |-> FALSE, flipped |-> FALSE]
    /\ results' = NoHand
    /\ hand_detected' = FALSE
    /\ landmarks' = <<>>
    /\ letter' = ""
    /\ conf' = 0
    /\ outputs' = NoOutputs
    /\ now' = 0
    /\ pendingKey' = NoKey
    /\ telemetry' = <<>>
    /\ preview' = <<>>
    /\ previewOutcome' = "none"
    /\ UNCHANGED <<config, mirror_mode, current_letter, confidence, fps,
                   last_video_send_time, clock, gaps>>

\* Variant of RunNoCamera that also gives up when no model was loaded.
RunNoCamera_OrNoModel ==
    /\ pc \in {"idle", "returned"}
    /\ ~cap_opened \/ onnx_session = "None"
    /\ pc' = "returned"
    /\ UNCHANGED <<exitReason, config, attrs, resources, locals, clock, pendingKey, wire, gaps>>

\* run() finds the camera closed and returns at once.
RunNoCamera ==
    /\ pc \in {"idle", "returned"}
    /\ ~cap_opened
    /\ pc' = "returned"
    /\ UNCHANGED <<exitReason, config, attrs, resources, locals, clock, pendingKey, wire, gaps>>

\* run() enters the loop: is_running, prev_time, frame_count.
RunStart ==
    /\ pc \in {"idle", "returned"}
    /\ cap_opened
    /\ pc' = "loop"
    /\ exitReason' = "none"
    /\ is_running' = TRUE
    /\ prev_time' = clock
    /\ frame_count' = 0
    /\ UNCHANGED <<config, mirror_mode, current_letter, confidence, fps,
                   last_video_send_time, resources, frame, results, outputs, hand_detected,
                   landmarks, letter, conf, now, clock, pendingKey, wire, gaps>>

\* Variant of ReadFrameFail that counts the failed read as a frame.
ReadFrameFail_CountsFrame ==
    /\ pc = "loop" /\ is_running
    /\ \E d \in Delays :
          /\ clock + d <= MaxClock
          /\ clock' = clock + d
    /\ frame_count' = frame_count + 1
    /\ UNCHANGED <<pc, exitReason, config, attrs, resources, prev_time, frame,
                   results, hand_detected, landmarks, letter, conf, outputs, now,
                   pendingKey, wire, gaps>>

\* cap.read() returns ret = False: "continue".
ReadFrameFail ==
    /\ pc = "loop" /\ is_running
    /\ \E d \in Delays :
          /\ clock + d <= MaxClock
          /\ clock' = clock + d
    /\ UNCHANGED <<pc, exitReason, config, attrs, resources, locals, pendingKey,
                   wire, gaps>>

\* cap.read() returns a frame, flipped when mirror_mode is set.
ReadFrameOk ==
    /\ pc = "loop" /\ is_running
    /\ \E d \in Delays :
          /\ clock + d <= MaxClock
          /\ frame_count < MaxFrames \/ (clock + d) - prev_time >= TicksPerSecond
          /\ clock' = clock + d
    /\ frame' = [taken |-> TRUE, flipped |-> mirror_mode]
    /\ pc' = "extract"
    /\ telemetry' = <<>>
    /\ preview' = <<>>
    /\ previewOutcome' = "none"
    /\ UNCHANGED <<exitReason, config, attrs, resources, prev_time, frame_count,
                   results, outputs, hand_detected, landmarks, letter, conf, now,
                   pendingKey, gaps>>

\* hands.process raises: nothing in run() catches it, "finally" runs.
ExtractRaises ==
    /\ pc = "extract"
    /\ Finally("exception")

\* Variant of CycleDefaults that starts from the last classification.
CycleDefaults_Stale ==
    [hand_detected |-> FALSE, landmarks |-> <<>>,
     letter |-> current_letter, confidence |-> confidence]

\* The values the locals of one cycle start from.
CycleDefaults ==
    [hand_detected |-> FALSE, landmarks |-> <<>>, letter |-> "", confidence |-> 0]

\* hands.process finds no hand.
ExtractNone ==
    /\ pc = "extract"
    /\ results' = NoHand
    /\ hand_detected' = CycleDefaults.hand_detected
    /\ landmarks' = CycleDefaults.landmarks
    /\ letter' = CycleDefaults.letter
    /\ conf' = CycleDefaults.confidence
    /\ pc' = "send"
    /\ UNCHANGED <<exitReason, config, attrs, resources, prev_time, frame_count,
                   frame, outputs, now, clock, pendingKey, wire, gaps>>

\* hands.process finds a hand: the first one is flattened.
ExtractHand ==
    /\ pc = "extract"
    /\ \E p \in Poses :
          /\ results' = Hand(p)
          /\ landmarks' = extract_landmarks(Hand(p))
    /\ hand_detected' = TRUE
    /\ letter' = CycleDefaults.letter
    /\ conf' = CycleDefaults.confidence
    /\ pc' = "classify"
    /\ UNCHANGED <<exitReason, config, attrs, resources, prev_time, frame_count,
                   frame, outputs, now, clock, pendingKey, wire, gaps>>

\* letter, confidence = predict_letter(landmarks), kept in the attributes too.
Classify ==
    /\ pc = "classify"
    /\ \E run \in EngineRuns :
          LET r == predict_letter(onnx_session, run) IN
          /\ letter' = r[1]
          /\ conf' = r[2]
          /\ current_letter' = r[1]
          /\ confidence' = r[2]
          /\ outputs' = IF onnx_session = "None" THEN NoOutputs ELSE run
    /\ pc' = "send"
    /\ UNCHANGED <<exitReason, config, is_running, mirror_mode, fps,
                   last_video_send_time, resources, prev_time, frame_count, frame,
                   results, hand_detected, landmarks, now, clock, pendingKey,
                   wire, gaps>>

\* Variant of SendTelemetry that sends only when a hand was detected.
SendTelemetry_HandOnly ==
    /\ pc = "send"
    /\ telemetry' =
          IF hand_detected
          THEN Append(telemetry,
                      TelemetryMessage(landmarks, letter, conf, hand_detected, clock))
          ELSE telemetry
    /\ pc' = "fps"
    /\ outputs' = NoOutputs
    /\ UNCHANGED <<exitReason, config, attrs, resources, prev_time, frame_count,
                   frame, results, hand_detected, landmarks, letter, conf, now,
                   clock, pendingKey, preview, previewOutcome, gaps>>

\* Variant of SendTelemetry that goes on to the display, past the FPS update.
SendTelemetry_SkipsFps ==
    /\ pc = "send"
    /\ telemetry' =
          Append(telemetry,
                 TelemetryMessage(landmarks, letter, conf, hand_detected, clock))
    /\ pc' = "show"
    /\ outputs' = NoOutputs
    /\ UNCHANGED <<exitReason, config, attrs, resources, prev_time, frame_count,
                   frame, results, hand_detected, landmarks, letter, conf, now,
                   clock, pendingKey, preview, previewOutcome, gaps>>

\* send_to_unity: one message handed to sendto.  A socket error is caught
\* inside send_to_unity and changes nothing of the tracker.  What the engine
\* returned has served once the result of predict_letter is on its way.
SendTelemetry ==
    /\ pc = "send"
    /\ telemetry' =
          Append(telemetry,
                 TelemetryMessage(landmarks, letter, conf, hand_detected, clock))
    /\ pc' = "fps"
    /\ outputs' = NoOutputs
    /\ UNCHANGED <<exitReason, config, attrs, resources, prev_time, frame_count,
                   frame, results, hand_detected, landmarks, letter, conf, now,
                   clock, pendingKey, preview, previewOutcome, gaps>>

\* The rolling FPS: recomputed once a second has passed.
UpdateFps ==
    /\ pc = "fps"
    /\ IF clock - prev_time >= TicksPerSecond
       THEN /\ fps' = <<frame_count + 1, clock - prev_time>>
            /\ frame_count' = 0
            /\ prev_time' = clock
       ELSE /\ frame_count' = frame_count + 1
            /\ UNCHANGED <<fps, prev_time>>
    /\ pc' = "show"
    /\ UNCHANGED <<exitReason, config, is_running, mirror_mode, current_letter,
                   confidence, last_video_send_time, resources, frame, results, outputs,
                   hand_detected, landmarks, letter, conf, now, clock, pendingKey,
                   wire, gaps>>

\* The debug window, when enabled; then the call of _send_video_frame_to_unity.
Display ==
    /\ pc = "show"
    /\ windows' = (windows \/ show_window)
    /\ pc' = "video"
    /\ UNCHANGED <<exitReason, config, attrs, cap_opened, hands_open, sock_open,
                   locals, clock, pendingKey, wire, gaps>>

\* Where run() goes on when _send_video_frame_to_unity returns: the keys are
\* read in the branch without a window.
AfterVideo == IF show_window THEN "loop" ELSE "keys"

\* _send_video_frame_to_unity with udp_video_port None.
VideoDisabled ==
    /\ pc = "video"
    /\ udp_video_port = NoPort
    /\ previewOutcome' = "disabled"
    /\ pc' = AfterVideo
    /\ UNCHANGED <<exitReason, config, attrs, resources, locals, clock,
                   pendingKey, telemetry, preview, gaps>>

\* Variant of VideoGate without the test of udp_video_port.
VideoGate_NoPortTest ==
    /\ pc = "video"
    /\ IF RateLimited(video_fps, clock, last_video_send_time)
       THEN /\ previewOutcome' = "limited"
            /\ pc' = AfterVideo
            /\ now' = 0
       ELSE /\ previewOutcome' = "encoding"
            /\ pc' = "encode"
            /\ now' = clock
    /\ UNCHANGED <<exitReason, config, attrs, resources, prev_time, frame_count,
                   frame, results, outputs, hand_detected, landmarks, letter, conf, clock,
                   pendingKey, telemetry, preview, gaps>>

\* now = time.time() and the rate limiter.
VideoGate ==
    /\ pc = "video"
    /\ udp_video_port # NoPort
    /\ IF RateLimited(video_fps, clock, last_video_send_time)
       THEN /\ previewOutcome' = "limited"
            /\ pc' = AfterVideo
            /\ now' = 0
       ELSE /\ previewOutcome' = "encoding"
            /\ pc' = "encode"
            /\ now' = clock
    /\ UNCHANGED <<exitReason, config, attrs, resources, prev_time, frame_count,
                   frame, results, outputs, hand_detected, landmarks, letter, conf, clock,
                   pendingKey, telemetry, preview, gaps>>

\* Variant of VideoNotSent that stamps _last_video_send_time all the same.
VideoNotSent_StampsAnyway ==
    /\ pc = "encode"
    /\ \E d \in Delays :
          /\ clock + d <= MaxClock
          /\ clock' = clock + d
    /\ \/ previewOutcome' = "encodefail"
       \/ \E n \in PayloadSizes : Oversized(n) /\ previewOutcome' = "oversize"
       \/ previewOutcome' = "socketerror"
    /\ pc' = AfterVideo
    /\ now' = 0
    /\ last_video_send_time' = now
    /\ UNCHANGED <<exitReason, config, is_running, mirror_mode, current_letter,
                   confidence, fps, resources, prev_time, frame_count,
                   frame, results, outputs, hand_detected, landmarks, letter, conf,
                   pendingKey, telemetry, preview, gaps>>

\* Resize and imencode fail, or the payload is too large: nothing is sent.
VideoNotSent ==
    /\ pc = "encode"
    /\ \E d \in Delays :
          /\ clock + d <= MaxClock
          /\ clock' = clock + d
    /\ \/ previewOutcome' = "encodefail"
       \/ \E n \in PayloadSizes : Oversized(n) /\ previewOutcome' = "oversize"
       \/ previewOutcome' = "socketerror"
    /\ pc' = AfterVideo
    /\ now' = 0
    /\ UNCHANGED <<exitReason, config, attrs, resources, prev_time, frame_count,
                   frame, results, outputs, hand_detected, landmarks, letter, conf,
                   pendingKey, telemetry, preview, gaps>>

\* The payload goes out and _last_video_send_time takes now.
VideoSent ==
    /\ pc = "encode"
    /\ \E d \in Delays, n \in PayloadSizes :
          /\ clock + d <= MaxClock
          /\ ~Oversized(n)
          /\ clock' = clock + d
          /\ preview' = Append(preview, [len |-> n])
          /\ lastPreviewAt' = clock + d
          /\ previewsSent' = IF previewsSent < 2 THEN previewsSent + 1 ELSE 2
    /\ last_video_send_time' = now
    /\ previewOutcome' = "sent"
    /\ pc' = AfterVideo
    /\ now' = 0
    /\ UNCHANGED <<exitReason, config, is_running, mirror_mode, current_letter,
                   confidence, fps, resources, prev_time, frame_count, frame,
                   results, outputs, hand_detected, landmarks, letter, conf, pendingKey,
                   telemetry, mirror_toggles>>

\* Variant of PollKeys in which 'm' switches the mirror off.
PollKeys_MirrorOff ==
    /\ pc = "keys"
    /\ IF pendingKey = "q"
       THEN Finally("quit")
       ELSE /\ pc' = "loop"
            /\ pendingKey' = NoKey
            /\ mirror_mode' = IF pendingKey = "m" THEN FALSE ELSE mirror_mode
            /\ mirror_toggles' = IF pendingKey = "m" THEN (mirror_toggles + 1) % 2
                                  ELSE mirror_toggles
            /\ UNCHANGED <<exitReason, config, is_running, current_letter,
                           confidence, fps, last_video_send_time, resources,
                           locals, clock, wire, lastPreviewAt, previewsSent>>

\* key = cv2.waitKey(1) & 0xFF, in the branch without a window.
PollKeys ==
    /\ pc = "keys"
    /\ IF pendingKey = "q"
       THEN Finally("quit")
       ELSE /\ pc' = "loop"
            /\ pendingKey' = NoKey
            /\ mirror_mode' = IF pendingKey = "m" THEN ~mirror_mode ELSE mirror_mode
            /\ mirror_toggles' = IF pendingKey = "m" THEN (mirror_toggles + 1) % 2
                                  ELSE mirror_toggles
            /\ UNCHANGED <<exitReason, config, is_running, current_letter,
                           confidence, fps, last_video_send_time, resources,
                           locals, clock, wire, lastPreviewAt, previewsSent>>

\* Ctrl-C anywhere inside the try block: "except KeyboardInterrupt", "finally".
KeyboardInterrupt ==
    /\ pc \in InLoop
    /\ Finally("interrupt")

\* The user presses a key while the loop runs.
KeyPress ==
    /\ pc \in InLoop
    /\ pendingKey = NoKey
    /\ \E k \in Keys : pendingKey' = k
    /\ UNCHANGED <<pc, exitReason, config, attrs, resources, locals, clock,
                   wire, gaps>>

Next ==
    \/ RunNoCamera
    \/ RunStart
    \/ ReadFrameFail
    \/ ReadFrameOk
    \/ ExtractRaises
    \/ ExtractNone
    \/ ExtractHand
    \/ Classify
    \/ SendTelemetry
    \/ UpdateFps
    \/ Display
    \/ VideoDisabled
    \/ VideoGate
    \/ VideoNotSent
    \/ VideoSent
    \/ PollKeys
    \/ KeyboardInterrupt
    \/ KeyPress

Spec == Init /\ [][Next]_vars

\* The steps run() takes by itself once a frame is read: the body of the loop
\* from hands.process to the end of the iteration.
LoopBody ==
    \/ ExtractNone
    \/ ExtractHand
    \/ Classify
    \/ SendTelemetry
    \/ UpdateFps
    \/ Display
    \/ VideoDisabled
    \/ VideoGate
    \/ VideoNotSent
    \/ VideoSent
    \/ PollKeys

\* The single thread of run() keeps going: a body that can take a step takes
\* one.  Whether cap.read() yields a frame, and whether a key or a Ctrl-C
\* arrives, is up to the environment: a read that fails for ever is the loop
\* held at "loop".
FairSpec == Spec /\ WF_vars(LoopBody)

\* ===================================================================== claims
\* The positions of a cycle after the call of send_to_unity.
PostSend == {"fps", "show", "video", "encode", "keys"}

\* A cycle has run to its end: its telemetry is out and its preview step is over.
CycleOver == pc = "keys" \/ (pc = "loop" /\ Len(telemetry) = 1)

\* The preview step of the current cycle is over.
PreviewStepOver ==
    previewOutcome \in {"disabled", "limited", "encodefail", "oversize",
                        "socketerror", "sent"}

\* A preview datagram leaves the socket in this step.
PreviewLeaves == Len(preview') > Len(preview)

\* The loop of run() goes round: the body is over and "while" is reached again.
CycleEnds == pc \in {"video", "encode", "keys"} /\ pc' = "loop"

C3_SendsApart ==
    [][(PreviewLeaves /\ video_fps > 0 /\ previewsSent >= 1)
          => (lastPreviewAt' - lastPreviewAt) * video_fps >= TicksPerSecond]_vars

\* C3 amended: with video_fps > 0, a preview is encoded only when now, read at
\* the entry of the call, is at least 1 / video_fps after the value of
\* _last_video_send_time, and the values _last_video_send_time takes at two
\* consecutive sends are at least 1 / video_fps apart.
C3_StampsApart ==
    [][/\ (pc' = "encode" /\ pc # "encode" /\ video_fps > 0)
            => (now' - last_video_send_time) * video_fps >= TicksPerSecond
       /\ (PreviewLeaves /\ video_fps > 0)
            => /\ last_video_send_time' = now
               /\ (last_video_send_time' - last_video_send_time) * video_fps
                     >= TicksPerSecond]_vars

\* Two previews have been sent under a positive video_fps.
C3_Witness == video_fps > 0 /\ previewsSent = 2 /\ previewOutcome = "sent"

\* ------------------------------------------------------------------------ C4
\* C4 as stated: with video_fps <= 0 and the preview channel enabled, every
\* cycle sends a preview datagram.
C4_EveryCycleSends ==
    (video_fps <= 0 /\ udp_video_port # NoPort /\ CycleOver) => Len(preview) = 1

\* C4 amended: with video_fps <= 0 and the preview channel enabled, the rate
\* limiter skips no cycle: every cycle reaches the encoder, and sends a preview
\* datagram unless the encoder fails, the payload is oversized or the socket
\* raises.
C4_NeverLimited ==
    (video_fps <= 0 /\ udp_video_port # NoPort) =>
        /\ previewOutcome # "limited"
        /\ CycleOver =>
              /\ previewOutcome \in {"sent", "encodefail", "oversize", "socketerror"}
              /\ (previewOutcome = "sent") = (Len(preview) = 1)

\* Two cycles in a row have sent a preview with the limiter off.
C4_Witness ==
    /\ video_fps <= 0
    /\ CycleOver
    /\ previewOutcome = "sent"
    /\ previewsSent = 2
    /\ lastPreviewAt = last_video_send_time

\* ------------------------------------------------------------------------ C5
\* C5: a preview datagram that is sent is at most MaxDatagram = 65000 bytes
\* long, and a cycle whose payload is larger sends no preview datagram at all.
C5_PreviewBounded ==
    /\ \A i \in 1..Len(preview) : preview[i].len <= MaxDatagram
    /\ Len(preview) <= 1
    /\ previewOutcome = "oversize" => preview = <<>>

C5_Witness == previewOutcome = "oversize" /\ CycleOver /\ preview = <<>>

\* ------------------------------------------------------------------------ C6
\* C6: the loop of run() is left only on a stop signal (the 'q' key or a
\* keyboard interrupt), never on an error of inference, extraction or
\* transmission.
C6_OnlyStopLeavesRunning ==
    [][(is_running /\ ~is_running') => exitReason' \in {"quit", "interrupt"}]_vars

\* ------------------------------------------------------------------------ C7
\* C7: whenever run() has returned, cleanup() has run: the capture handle, the
\* extractor session and the socket are released.
C7_CleanupOnEveryExit ==
    pc = "returned" => (~cap_opened /\ ~hands_open /\ ~sock_open)

\* ------------------------------------------------------------------------ C8
\* C8 as stated: without a classifier every telemetry message, with or without
\* a hand, has letter "?" and confidence 0.0, and hand_detected and landmarks
\* are those of the extraction of the cycle.
C8_AlwaysSentinel ==
    onnx_session = "None" =>
        \A i \in 1..Len(telemetry) :
            /\ telemetry[i].letter = Unknown
            /\ telemetry[i].confidence = 0
            /\ telemetry[i].hand_detected = (results # NoHand)
            /\ telemetry[i].landmarks = extract_landmarks(results)

\* C8 amended: without a classifier every telemetry message of a cycle with a
\* hand has letter "?" and confidence 0.0, every message of a cycle without a
\* hand has letter "" and confidence 0.0, and hand_detected and landmarks are
\* those of the extraction of the cycle.
C8_SentinelWithHand ==
    onnx_session = "None" =>
        \A i \in 1..Len(telemetry) :
            /\ telemetry[i].letter = IF telemetry[i].hand_detected THEN Unknown ELSE ""
            /\ telemetry[i].confidence = 0
            /\ telemetry[i].hand_detected = (results # NoHand)
            /\ telemetry[i].landmarks = extract_landmarks(results)

C8_Witness ==
    /\ onnx_session = "None"
    /\ Len(telemetry) = 1
    /\ telemetry[1].hand_detected
    /\ telemetry[1].letter = Unknown
    /\ Len(telemetry[1].landmarks) = 63

\* ------------------------------------------------------------------------ C9
\* C9: the telemetry message of a cycle without a hand is hand_detected false,
\* landmarks [], letter "" and confidence 0.0, whatever current_letter and
\* confidence hold from earlier cycles.
C9_NoHandMessage ==
    \A i \in 1..Len(telemetry) :
        /\ telemetry[i].hand_detected = (results # NoHand)
        /\ ~telemetry[i].hand_detected =>
              /\ telemetry[i].landmarks = <<>>
              /\ telemetry[i].letter = ""
              /\ telemetry[i].confidence = 0

\* A cycle without a hand after a cycle that classified "A" at 0.92.
C9_Witness ==
    /\ Len(telemetry) = 1
    /\ ~telemetry[1].hand_detected
    /\ current_letter = "A"
    /\ confidence = 92

\* ----------------------------------------------------------------------- C10
\* C10: with the debug window enabled the loop does not go round again with a
\* 'q' waiting (it exits and cleanup() runs), and an 'm' waiting at the end of
\* a cycle toggles mirror_mode.
C10_KeysActWithWindow ==
    [][(show_window /\ CycleEnds) =>
          /\ pendingKey # "q"
          /\ pendingKey = "m" => mirror_mode' # mirror_mode]_vars

C12_DeadDeviceStops == <>[][~ReadFrameOk]_vars => <>[](~is_running)

\* ----------------------------------------------------------------------- C13
\* C13: run() is in its loop exactly when is_running is set, and that only
\* with the capture device opened; a run() that returned without ever entering
\* the loop found the device closed, whatever onnx_session is; and a tracker
\* whose device did not open is never running and has sent no telemetry and no
\* preview datagram.
C13_RunningIffCameraOpened ==
    /\ is_running <=> pc \in InLoop
    /\ is_running => cap_opened
    /\ (pc = "returned" /\ exitReason = "none") => ~cap_opened
    /\ (~cap_opened /\ exitReason = "none") =>
          /\ pc \in {"idle", "returned"}
          /\ ~is_running
          /\ telemetry = <<>>
          /\ preview = <<>>
          /\ previewsSent = 0

\* Running without a model: a cycle with a hand has sent the sentinel.
C13_Witness ==
    /\ onnx_session = "None"
    /\ is_running
    /\ cap_opened
    /\ Len(telemetry) = 1
    /\ telemetry[1].letter = Unknown

\* ----------------------------------------------------------------------- C14
\* C14: once cleanup() has run (run() has returned with a reason), every later
\* step leaves the tracker returned, with is_running false, and puts no
\* telemetry and no preview datagram on the wire.
C14_StoppedIsTerminal ==
    [][(pc = "returned" /\ exitReason # "none") =>
          /\ pc' = "returned"
          /\ exitReason' = exitReason
          /\ ~is_running'
          /\ telemetry' = <<>>
          /\ preview' = <<>>
          /\ previewsSent' = previewsSent]_vars

\* A tracker stopped by 'q' after a preview was sent: a call of run() is
\* possible and it is the one that returns at once.
C14_Witness ==
    /\ pc = "returned"
    /\ exitReason = "quit"
    /\ previewsSent >= 1
    /\ ~is_running
    /\ ENABLED RunNoCamera
    /\ ~ENABLED RunStart

\* ----------------------------------------------------------------------- C15
\* C15: a step that changes mirror_mode leaves the frame of the cycle as it
\* is; a frame is flipped exactly when mirror_mode was set at its acquisition;
\* and mirror_mode has its initial value (set) exactly after an even number of
\* toggles, so two toggles in a row restore it and the orientation of every
\* later frame.
C15_ToggleActsOnLaterFrames ==
    [][/\ mirror_mode' # mirror_mode => frame' = frame
       /\ (pc = "loop" /\ pc' = "extract") =>
             /\ frame'.flipped = mirror_mode
             /\ frame'.flipped = (mirror_toggles = 0)
       /\ mirror_mode' = (mirror_toggles' = 0)]_vars

\* Two toggles in a row: the last frame was acquired after the first one (it
\* is not flipped), the second one has set mirror_mode again.
C15_Witness ==
    /\ pc = "loop"
    /\ is_running
    /\ frame.taken /\ ~frame.flipped
    /\ mirror_mode
    /\ mirror_toggles = 0

\* ----------------------------------------------------------------------- C16
\* C16: whenever the loop leaves Running on a stop request ('q' or a keyboard
\* interrupt), it does so from the key poll at the end of the cycle, with the
\* telemetry of the cycle sent and its preview step over.
C16_StopOnlyAtPoll ==
    [][(is_running /\ ~is_running' /\ exitReason' \in {"quit", "interrupt"}) =>
          /\ pc = "keys"
          /\ Len(telemetry) = 1
          /\ PreviewStepOver]_vars

Enters(p) == pc # p /\ pc' = p

\* The telemetry message of the cycle is handed to the socket in this step.
TelemetryLeaves == Len(telemetry') > Len(telemetry)

\* The rolling FPS is updated in this step: the frame is counted, or the
\* window is closed.
FpsUpdates ==
    /\ pc \in InLoop /\ pc' \in InLoop
    /\ frame_count' # frame_count \/ prev_time' # prev_time

\* The preview step of the cycle begins in this step.
PreviewStepBegins == previewOutcome = "none" /\ previewOutcome' # "none"

C19_StampOnlyOnSuccess ==
    [][/\ last_video_send_time' # last_video_send_time =>
             /\ PreviewLeaves
             /\ previewOutcome' = "sent"
             /\ last_video_send_time' = now
       /\ (previewOutcome' # previewOutcome
             /\ previewOutcome' \in {"limited", "encodefail", "oversize",
                                     "socketerror"}) =>
             /\ last_video_send_time' = last_video_send_time
             /\ preview' = <<>>
       /\ (previewOutcome' # previewOutcome /\ previewOutcome' = "limited") =>
             RateLimited(video_fps, clock, last_video_send_time)]_vars

\* A preview was sent in an earlier cycle; a later call got past the limiter
\* and lost its payload to the size test: the stamp is still the earlier one.
C19_Witness ==
    /\ previewOutcome = "oversize"
    /\ previewsSent >= 1
    /\ last_video_send_time >= StartClock
    /\ clock > last_video_send_time

\* ----------------------------------------------------------------------- C20
\* onnx_session.run has returned in this cycle, and whether it returned a
\* probability output next to the label.
InferenceSucceeded == pc = "send" /\ outputs.nout > 0 /\ ~outputs.raises
HasProbabilities == outputs.nout > 1 /\ outputs.probs.kind # "None"

\* C20: after a successful inference the confidence is the largest class
\* probability of the engine whenever the engine returned probabilities, it is
\* 1.0 by default only when the engine returned none, and it lies in 0.0 .. 1.0.
C20_ConfidenceFromEngine ==
    InferenceSucceeded =>
        /\ letter = outputs.label
        /\ (HasProbabilities /\ outputs.probs.items # {}) =>
              conf = MaxValue(outputs.probs.items)
        /\ ~HasProbabilities => conf = UnityPercent
        /\ 0 <= conf /\ conf <= UnityPercent

\* ----------------------------------------------------------------------- C21
\* A cap.read() that fails has taken its time: the loop is where it was and
\* only the clock has moved.
FailedRead == pc = "loop" /\ pc' = "loop" /\ clock' # clock

\* C21: an iteration whose read fails sends no telemetry and no preview
\* datagram, leaves mirror_mode, _last_video_send_time, fps, the frame counter
\* and its window, current_letter and confidence as they were, and the loop is
\* still running, at its next cap.read().
C21_FailedReadChangesNothing ==
    [][FailedRead =>
          /\ telemetry' = telemetry
          /\ preview' = preview
          /\ previewOutcome' = previewOutcome
          /\ previewsSent' = previewsSent
          /\ lastPreviewAt' = lastPreviewAt
          /\ mirror_mode' = mirror_mode
          /\ last_video_send_time' = last_video_send_time
          /\ fps' = fps
          /\ frame_count' = frame_count
          /\ prev_time' = prev_time
          /\ current_letter' = current_letter
          /\ confidence' = confidence
          /\ is_running /\ is_running'
          /\ cap_opened']_vars

\* The reads have failed since run() began, a second has gone by and no frame
\* was taken: nothing is on the wire and the frame counter is at 0.
C21_Witness ==
    /\ pc = "loop"
    /\ is_running
    /\ ~frame.taken
    /\ clock > prev_time
    /\ telemetry = <<>>
    /\ preview = <<>>
    /\ frame_count = 0

====
